---------------------------- MODULE Spec2Model ----------------------------
(***************************************************************************)
(* Model of the matchmaking and rating core of backend.py: the JSON files  *)
(* wishlist.json, history.json, stats.json and genres.json, and the        *)
(* handlers /import/json, /genres, /genres/{id}/games, /pair, /vote and    *)
(* /pass that read and write them.                                         *)
(*                                                                         *)
(* Representation.                                                         *)
(*  - wishlist.json is a dict keyed by appid; Python dicts and the JSON    *)
(*    file keep insertion order and sorted() is stable, so the wishlist is *)
(*    a sequence of game records in insertion order.                       *)
(*  - Ratings are floats in the code.  Here they are integers (rating      *)
(*    points) and 10 ** (d / 400) is read from a table in steps of 25      *)
(*    points, in thousandths (ExpectedPermille).  The formulas below rest  *)
(*    only on the order of ratings, on their distances and on the          *)
(*    counters, never on the exact value of an Elo update.                 *)
(*  - title, image_url and image_path of a game are not modelled: no       *)
(*    handler modelled here branches on them.                              *)
(*  - Each read and each write of a file is one atomic step.               *)
(***************************************************************************)
EXTENDS Integers, Sequences, FiniteSets, TLC

\* ------------------------------------------------------------------ bounds

\* Most resolved matches (votes and passes) in one behaviour of Spec.
MaxMatches == 2

\* Most resolved matches before a /pair request in one behaviour of SpecPair
\* and of SpecSlice.
MaxPairMatches == 1

\* Most games in the wishlist in one behaviour of SpecSlice.
MaxSliceGames == 31

\* Worker threads, and most requests handed to them, in SpecConc.
NumThreads == 2

MaxCalls == 3

\* The appids a request may name.  Appids are interchangeable names, so
\* /import/json takes new ones in this order (NextAppId).
AppIdList == <<"a", "b", "c", "d">>

AppIds == {AppIdList[i] : i \in 1..Len(AppIdList)}

\* The appids the match requests of Spec name ("c" may be an unknown game).
MatchIds == {"a", "b", "c"}

\* The appids of SpecSlice, numerals as Steam's are: "1", "2", ...
SliceIdList == [i \in 1..MaxSliceGames |-> ToString(i)]

SliceIds == {SliceIdList[i] : i \in 1..MaxSliceGames}

\* The appids the match requests of SpecSlice name.
SliceMatchIds == {SliceIdList[i] : i \in 1..3}

\* The games of the wishlist SpecConc starts from, and the appids its
\* requests name.
ConcIdList == <<"a", "b">>

ConcIds == {"a", "b"}

\* The names POST /genres is given, and the genre ids a request may name.
GenreNames == {"", "RPG"}

GenreIds == {"", "rpg"}

\* Python's None for an optional query parameter that is absent.
None == "<None>"

\* ------------------------------------------------------- program constants

DefaultRating == 1500
DefaultVoteK == 48
DefaultPassK == 24

\* The K-factors a caller supplies (k is a query parameter of /vote, /pass).
KFactors == {DefaultPassK, DefaultVoteK}

\* Settings.choices_history_length and pair's default for it.
DefaultHistoryLength == 30

\* ------------------------------------------------------------------- state

VARIABLES
    wishlist,   \* wishlist.json: sequence of games, in insertion order
    history,    \* history.json: sequence of history entries, oldest first
    stats,      \* stats.json: [total_played |-> n]
    genres,     \* genres.json: genre id -> [games |-> set of appids]
    last,       \* the last /pair, /vote or /pass request and its response
    threads,    \* the worker threads serving /vote and /pass concurrently
    started,    \* the number of requests handed to the worker threads
    completed,  \* the requests the worker threads answered, in that order
    present,    \* the files among wishlist, history and stats that exist
    tasks,      \* the cache_image_for_game tasks started by /pair
    version,    \* version.json: the number of the last backup
    backups     \* temp/: backup version -> the files copied into its folder

vars == <<wishlist, history, stats, genres, last, threads, started, completed,
          present, tasks, version, backups>>

\* The variables of the worker threads.
conc == <<threads, started, completed>>

\* The variables of the backups.
backup == <<version, backups>>

\* The names of the files that a backup copies.
AllFiles == {"wishlist", "history", "stats"}

\* ------------------------------------------------------------ Elo functions

Abs(x) == IF x < 0 THEN -x ELSE x

Min(x, y) == IF x <= y THEN x ELSE y

Max(x, y) == IF x >= y THEN x ELSE y

\* 1000 / (1 + 10 ** (-d / 400)) for d = 0, 25, 50, ..., 800, rounded.
ExpectedTable ==
    << 500, 536, 571, 606, 640, 673, 703, 733, 760, 785, 808,
       830, 849, 867, 882, 896, 909, 920, 930, 939, 947, 954,
       960, 965, 969, 973, 977, 980, 983, 985, 987, 989, 990 >>

\* expected_score(r_a, r_b), in thousandths.
ExpectedPermille(r_a, r_b) ==
    LET d == r_a - r_b
        e == ExpectedTable[Min(Abs(d), 800) \div 25 + 1]
    IN  IF d >= 0 THEN e ELSE 1000 - e

\* update_elo(r_winner, r_loser, k): <<r_winner_new, r_loser_new>>.
UpdateElo(r_winner, r_loser, k) ==
    LET e_win  == ExpectedPermille(r_winner, r_loser)
        e_lose == ExpectedPermille(r_loser, r_winner)
    IN  << r_winner + (k * (1000 - e_win)) \div 1000,
           r_loser - (k * e_lose) \div 1000 >>

\* ------------------------------------------------------------- the wishlist

\* The record /import/json creates for a new appid.
NewGame(appid) ==
    [appid |-> appid, rating |-> DefaultRating,
     wins |-> 0, losses |-> 0, played |-> 0]

\* appid in data
InStore(data, appid) == \E i \in 1..Len(data) : data[i].appid = appid

\* The position of data[appid] (appids are the dict's keys: unique).
IndexOf(data, appid) == CHOOSE i \in 1..Len(data) : data[i].appid = appid

\* data[appid]
GameOf(data, appid) == data[IndexOf(data, appid)]

\* The appids of a sequence of games, as a set.
AppIdsOf(games) == {games[i].appid : i \in 1..Len(games)}


\* ---------------------------------------------------------- match resolver

\* data.get(a) and data.get(b) are both games (vote and pass_vote raise 400
\* "Invalid appid(s)" otherwise).
BothKnown(data, a, b) == InStore(data, a) /\ InStore(data, b)

\* ApplyMatch without the loser's played += 1.
ApplyMatchLoserNotPlayed(data, w, l, k) ==
    LET iw  == IndexOf(data, w)
        il  == IndexOf(data, l)
        new == UpdateElo(data[iw].rating, data[il].rating, k)
        d1  == [data EXCEPT ![iw].rating = new[1]]
        d2  == [d1 EXCEPT ![il].rating = new[2]]
        d3  == [d2 EXCEPT ![iw].wins = @ + 1]
        d4  == [d3 EXCEPT ![il].losses = @ + 1]
    IN  [d4 EXCEPT ![iw].played = @ + 1]

\* The assignments of vote and pass_vote to the two loaded game dicts, in the
\* order of the code.  winner and loser are the same dict when w = l, so a
\* later assignment then reads and overwrites what an earlier one wrote.
ApplyMatch(data, w, l, k) ==
    LET iw  == IndexOf(data, w)
        il  == IndexOf(data, l)
        new == UpdateElo(data[iw].rating, data[il].rating, k)
        d1  == [data EXCEPT ![iw].rating = new[1]]
        d2  == [d1 EXCEPT ![il].rating = new[2]]
        d3  == [d2 EXCEPT ![iw].wins = @ + 1]
        d4  == [d3 EXCEPT ![il].losses = @ + 1]
        d5  == [d4 EXCEPT ![iw].played = @ + 1]
    IN  [d5 EXCEPT ![il].played = @ + 1]

\* The dict handed to append_history.  pass is the entry's "pass" key (absent
\* from a vote's entry); req is not in the file: it names the request that
\* wrote the entry, for the formulas about concurrent requests.
MatchEntry(data, w, l, k, isPass, req) ==
    LET r_w == GameOf(data, w).rating
        r_l == GameOf(data, l).rating
        new == UpdateElo(r_w, r_l, k)
    IN  [winner |-> w, loser |-> l, pass |-> isPass,
         r_w_before |-> r_w, r_l_before |-> r_l,
         r_w_after |-> new[1], r_l_after |-> new[2],
         k |-> k, req |-> req]

\* PassWinner with < for <=: a tie goes to b.
PassWinnerStrict(data, a, b) ==
    IF GameOf(data, a).rating < GameOf(data, b).rating
    THEN <<a, b>>
    ELSE <<b, a>>

\* pass_vote's choice: <<winner, loser>> of a and b.
PassWinner(data, a, b) ==
    IF GameOf(data, a).rating <= GameOf(data, b).rating
    THEN <<a, b>>
    ELSE <<b, a>>

\* stats["total_played"] = stats.get("total_played", 0) + 1
BumpStats(st) == [st EXCEPT !.total_played = @ + 1]

\* VoteResult that counts the request before it looks the games up.
VoteResultCountedFirst(data, hist, st, w, l, k) ==
    IF ~BothKnown(data, w, l)
    THEN [status |-> 400, error |-> "UnknownGame", winner |-> None,
          wishlist |-> data, history |-> hist, stats |-> BumpStats(st)]
    ELSE [status |-> 200, error |-> None, winner |-> w,
          wishlist |-> ApplyMatch(data, w, l, k),
          history |-> Append(hist, MatchEntry(data, w, l, k, FALSE, 0)),
          stats |-> BumpStats(st)]

\* The whole of vote, run alone on the files' contents: the response and the
\* contents it leaves.
VoteResult(data, hist, st, w, l, k) ==
    IF ~BothKnown(data, w, l)
    THEN [status |-> 400, error |-> "UnknownGame", winner |-> None,
          wishlist |-> data, history |-> hist, stats |-> st]
    ELSE [status |-> 200, error |-> None, winner |-> w,
          wishlist |-> ApplyMatch(data, w, l, k),
          history |-> Append(hist, MatchEntry(data, w, l, k, FALSE, 0)),
          stats |-> BumpStats(st)]

\* The whole of pass_vote, run alone on the files' contents.
PassResult(data, hist, st, a, b, k) ==
    IF ~BothKnown(data, a, b)
    THEN [status |-> 400, error |-> "UnknownGame", winner |-> None,
          wishlist |-> data, history |-> hist, stats |-> st]
    ELSE LET wl == PassWinner(data, a, b)
         IN  [status |-> 200, error |-> None, winner |-> wl[1],
              wishlist |-> ApplyMatch(data, wl[1], wl[2], k),
              history |-> Append(hist,
                              MatchEntry(data, wl[1], wl[2], k, TRUE, 0)),
              stats |-> BumpStats(st)]

\* ------------------------------------------------------------------ genres

\* create_genre's genre_id = payload.name.lower().replace(" ", "_")
GenreIdOf(name) ==
    CASE name = "" -> ""
      [] name = "RPG" -> "rpg"
      [] name = "rpg" -> "rpg"
      [] name = "Co Op" -> "co_op"
      [] OTHER -> name

\* genre in genres
GenreIn(gen, genre) == genre \in DOMAIN gen /\ gen[genre].present

\* Python's truth of an Optional[str]: None and "" are false.
Truthy(str) == str # None /\ str # ""

\* ---------------------------------------------------------- pairing selector

\* recent_hist[-n:], Python's slice: the last n entries for n > 0, the whole
\* list for n = 0 (-0 is 0), and the list without its first -n for n < 0.
PyTail(hist, n) ==
    IF n > 0
    THEN SubSeq(hist, Max(1, Len(hist) - n + 1), Len(hist))
    ELSE SubSeq(hist, Min(Len(hist), -n) + 1, Len(hist))

\* multi_sort's recent_appids.
RecentAppIds(hist, q) ==
    LET recent == PyTail(hist, q.choices_history_length)
    IN  {recent[i].winner : i \in 1..Len(recent)}
            \cup {recent[i].loser : i \in 1..Len(recent)}

\* No reference game: multi_sort's g1=None.
NoGame == [appid |-> None]

\* multi_sort's sort_key(g): the tuple of keys, for the preferences of query
\* q; recent is recent_appids.
SortKey(g, g1, q, recent) ==
    (IF q.prefer_new_choices
     THEN << IF g.appid \in recent THEN 1 ELSE 0 >>
     ELSE << >>)
    \o (IF q.prefer_lower_played THEN << g.played >> ELSE << >>)
    \o (IF g1.appid # None
        THEN IF q.prefer_close_rating
             THEN << Abs(g.rating - g1.rating) >>
             ELSE IF q.prefer_far_rating
                  THEN << -Abs(g.rating - g1.rating) >>
                  ELSE << >>
        ELSE << >>)

\* Python's < on two tuples of numbers of the same length.
TupleLess(s, t) ==
    \E i \in 1..Len(s) :
        /\ s[i] < t[i]
        /\ \A j \in 1..(i - 1) : s[j] = t[j]

\* The keys of the set S in ascending order.
RECURSIVE KeysAscending(_)
KeysAscending(S) ==
    IF S = {} THEN << >>
    ELSE LET least == CHOOSE k \in S : \A o \in S \ {k} : TupleLess(k, o)
         IN  <<least>> \o KeysAscending(S \ {least})

\* The keyed games of each key of ks in turn, each time in the list's order.
RECURSIVE KeyByKey(_, _)
KeyByKey(keyed, ks) ==
    IF ks = << >> THEN << >>
    ELSE SelectSeq(keyed, LAMBDA d : d.key = Head(ks))
            \o KeyByKey(keyed, Tail(ks))

\* sorted(games, key=sort_key).  Python computes each game's key once and
\* sorts stably: ascending keys, and games of equal keys in the order of the
\* list.
MultiSort(games, g1, q, hist) ==
    LET recent == RecentAppIds(hist, q)
        keyed == [i \in 1..Len(games) |->
                    [game |-> games[i],
                     key |-> SortKey(games[i], g1, q, recent)]]
        ordered == KeyByKey(keyed,
                       KeysAscending({keyed[i].key : i \in 1..Len(games)}))
    IN  [r \in 1..Len(games) |-> ordered[r].game]

\* TopN with a half for a tenth.
TopNHalf(n) == Max(2, n \div 2)

\* pick_from_top's top_n = max(2, int(len(sorted_games) * 0.1))
TopN(n) == Max(2, n \div 10)

\* pick_from_top(sorted_games): the games random.choice may return; {} is
\* None.  (No call passes exclude_appid.)
PickFromTop(sorted_games) ==
    LET candidates == SubSeq(sorted_games, 1,
                             Min(TopN(Len(sorted_games)), Len(sorted_games)))
    IN  {candidates[i] : i \in 1..Len(candidates)}

\* Without that removes nothing.
WithoutNothing(games, appid) == games

\* [g for g in games if g["appid"] != appid]
Without(games, appid) == SelectSeq(games, LAMBDA g : g.appid # appid)

\* pair's candidate list: list(data.values()), cut to the genre's games when
\* a genre is given.
Candidates(data, gen, q) ==
    IF Truthy(q.genre) /\ GenreIn(gen, q.genre)
    THEN SelectSeq(data, LAMBDA g : g.appid \in gen[q.genre].games)
    ELSE data

\* The pairs <<g1, g2>> of the free branch.
FreePairs(games, q, hist) ==
    UNION { {<<g1, g2>> : g2 \in PickFromTop(
                              MultiSort(Without(games, g1.appid), g1, q, hist))}
            : g1 \in PickFromTop(MultiSort(games, NoGame, q, hist)) }

\* ChallengerPairs that does not pin the challenger.
ChallengerPairsUnpinned(data, games, q, hist) == FreePairs(games, q, hist)

\* The pairs <<g1, g2>> of the challenger branch.
ChallengerPairs(data, games, q, hist) ==
    LET g1 == GameOf(data, q.challenger)
        possible_opponents == Without(games, q.challenger)
    IN  {<<g1, g2>> : g2 \in PickFromTop(
                            MultiSort(possible_opponents, g1, q, hist))}

\* challenger and challenger in data
ChallengerMode(data, q) == Truthy(q.challenger) /\ InStore(data, q.challenger)

\* The responses pair may give to query q on these files' contents.
PairResults(data, hist, gen, q) ==
    LET games == Candidates(data, gen, q)
    IN  IF Truthy(q.genre) /\ ~GenreIn(gen, q.genre)
        THEN {[status |-> 404, error |-> "GenreNotFound",
               a |-> None, b |-> None]}
        ELSE IF Len(games) < 2
        THEN {[status |-> 400, error |-> "InsufficientCandidates",
               a |-> None, b |-> None]}
        ELSE IF ChallengerMode(data, q)
                /\ Len(Without(games, q.challenger)) = 0
        THEN {[status |-> 400, error |-> "InsufficientCandidates",
               a |-> None, b |-> None]}
        ELSE LET pairs == IF ChallengerMode(data, q)
                          THEN ChallengerPairs(data, games, q, hist)
                          ELSE FreePairs(games, q, hist)
             IN  {[status |-> 200, error |-> None,
                   a |-> p[1].appid, b |-> p[2].appid] : p \in pairs}

\* A query of /pair.
Query(close, far, lower, new, length, challenger, genre) ==
    [prefer_close_rating |-> close, prefer_far_rating |-> far,
     prefer_lower_played |-> lower, prefer_new_choices |-> new,
     choices_history_length |-> length,
     challenger |-> challenger, genre |-> genre]

\* The values of challenger a query carries: none, the first appid imported
\* and the last one (an unknown game until it is imported).
Challengers == {None, AppIdList[1], AppIdList[Len(AppIdList)]}

\* The queries of /pair: every preference with and without a challenger;
\* the lengths 0 and 1 of the recent history; and every genre id, with and
\* without a challenger, with no preference and with three of them.
Queries ==
    {Query(close, far, lower, new, DefaultHistoryLength, c, None) :
        close \in BOOLEAN, far \in BOOLEAN, lower \in BOOLEAN,
        new \in BOOLEAN, c \in Challengers}
    \cup {Query(FALSE, FALSE, lower, TRUE, length, None, None) :
            lower \in BOOLEAN, length \in {0, 1}}
    \cup {Query(on, FALSE, on, on, DefaultHistoryLength, c, g) :
            on \in BOOLEAN, c \in Challengers, g \in GenreIds}

\* ---------------------------------------------------------------- requests

\* last after a request that is none of /pair, /vote and /pass: the response
\* of such a request is not kept.
Other == [op |-> "other", status |-> 200]

\* The first appid of the list ids not in the wishlist (None when all are).
NextAppId(data, ids) ==
    LET free == {i \in 1..Len(ids) : ~InStore(data, ids[i])}
    IN  IF free = {} THEN None
        ELSE ids[CHOOSE i \in free : \A j \in free : i <= j]

\* Appids are interchangeable names: a new game is imported under the first
\* unused appid of ids.  (An appid of the wishlist may be imported again.)
InOrder(ids, appid) ==
    InStore(wishlist, appid) \/ appid = NextAppId(wishlist, ids)

\* POST /import/json with a one-entry list.  (A longer list adds its entries
\* in order, as a run of these requests does.)
ImportJson(appid) ==
    /\ wishlist' = IF InStore(wishlist, appid)
                   THEN wishlist
                   ELSE Append(wishlist, NewGame(appid))
    /\ last' = Other
    /\ present' = present \cup {"wishlist"}
    /\ UNCHANGED <<history, stats, genres, conc, tasks, backup>>

\* POST /vote, served alone.
Vote(w, l, k) ==
    /\ LET r == VoteResult(wishlist, history, stats, w, l, k)
       IN  /\ wishlist' = r.wishlist
           /\ history' = r.history
           /\ stats' = r.stats
           /\ last' = [op |-> "vote", a |-> w, b |-> l, k |-> k,
                       status |-> r.status, error |-> r.error,
                       winner |-> r.winner]
           /\ present' = IF r.status = 200 THEN AllFiles ELSE present
    /\ UNCHANGED <<genres, conc, tasks, backup>>

\* POST /pass, served alone.
PassVote(a, b, k) ==
    /\ LET r == PassResult(wishlist, history, stats, a, b, k)
       IN  /\ wishlist' = r.wishlist
           /\ history' = r.history
           /\ stats' = r.stats
           /\ last' = [op |-> "pass", a |-> a, b |-> b, k |-> k,
                       status |-> r.status, error |-> r.error,
                       winner |-> r.winner]
           /\ present' = IF r.status = 200 THEN AllFiles ELSE present
    /\ UNCHANGED <<genres, conc, tasks, backup>>

\* POST /genres
CreateGenre(name) ==
    LET genre_id == GenreIdOf(name)
    IN  /\ genres' = IF GenreIn(genres, genre_id)
                     THEN genres
                     ELSE [genres EXCEPT
                              ![genre_id] = [present |-> TRUE, games |-> {}]]
        /\ last' = Other
        /\ UNCHANGED <<wishlist, history, stats, conc, present, tasks, backup>>

\* POST /genres/{genre_id}/games.  The route's path segment is never empty,
\* so genre_id is not "".  The genre's games are a list the handler appends
\* to only when the appid is not in it, and is read only with "in": a set.
AddGameToGenre(genre_id, appid) ==
    /\ genre_id # ""
    /\ LET ok == GenreIn(genres, genre_id) /\ InStore(wishlist, appid)
       IN  /\ genres' = IF ok
                        THEN [genres EXCEPT ![genre_id].games = @ \cup {appid}]
                        ELSE genres
           /\ last' = Other
    /\ UNCHANGED <<wishlist, history, stats, conc, present, tasks, backup>>

\* A cache_image_for_game task that has not run yet.
NewTask(appid) == [appid |-> appid, pc |-> "start", data |-> << >>]

\* GET /pair, up to its response.  The two cache_image_for_game tasks it
\* creates for the games of the pair run after it, on the event loop.
Pair(q) ==
    /\ \E r \in PairResults(wishlist, history, genres, q) :
          /\ last' = [op |-> "pair", q |-> q, status |-> r.status,
                      error |-> r.error, a |-> r.a, b |-> r.b]
          /\ tasks' = IF r.status = 200
                      THEN tasks \o <<NewTask(r.a), NewTask(r.b)>>
                      ELSE tasks
    /\ UNCHANGED <<wishlist, history, stats, genres, conc, present, backup>>

\* cache_image_for_game up to its return without a download: the game has no
\* image_url, or the image is in the cache already, or the download fails.
\* (image_path is set on the task's own dict only.)
CacheSkip(i) ==
    /\ tasks[i].pc = "start"
    /\ tasks' = [tasks EXCEPT ![i].pc = "done"]
    /\ UNCHANGED <<wishlist, history, stats, genres, last, conc, present,
                   backup>>

\* cache_image_for_game after a download: the argument of
\* save_wishlist(load_wishlist()) is evaluated.
CacheLoad(i) ==
    /\ tasks[i].pc = "start"
    /\ tasks' = [tasks EXCEPT ![i].pc = "save", ![i].data = wishlist]
    /\ UNCHANGED <<wishlist, history, stats, genres, last, conc, present,
                   backup>>

\* cache_image_for_game: save_wishlist writes what load_wishlist returned.
CacheSave(i) ==
    /\ tasks[i].pc = "save"
    /\ wishlist' = tasks[i].data
    /\ present' = present \cup {"wishlist"}
    /\ tasks' = [tasks EXCEPT ![i].pc = "done", ![i].data = << >>]
    /\ UNCHANGED <<history, stats, genres, last, conc, backup>>

\* ------------------------------------------- /vote and /pass, concurrently
\* vote and pass_vote are plain (not async) handlers: the server runs each
\* request on a worker thread, and no lock guards the files.  A thread's steps
\* are its file reads and writes; what it computes between them is local.

Threads == 1..NumThreads

\* A thread that serves no request.
Idle ==
    [pc |-> "idle", req |-> 0, op |-> None, a |-> None, b |-> None, k |-> 0,
     data |-> << >>, entry |-> [req |-> 0], hist |-> << >>,
     st |-> [total_played |-> 0]]

\* The request a thread serves, as completed records it.
CallOf(th, status) ==
    [req |-> th.req, op |-> th.op, a |-> th.a, b |-> th.b, k |-> th.k,
     status |-> status]

\* load_wishlist, the lookup of both games and, when both are known, the new
\* ratings and counters, set on the thread's own copy of the wishlist.
Begin(t, op, a, b, k) ==
    /\ threads[t].pc = "idle"
    /\ started < MaxCalls
    /\ started' = started + 1
    /\ LET data == wishlist
           th   == [Idle EXCEPT !.req = started + 1, !.op = op,
                                !.a = a, !.b = b, !.k = k]
       IN  IF ~BothKnown(data, a, b)
           THEN /\ completed' = Append(completed, CallOf(th, 400))
                /\ UNCHANGED threads
           ELSE LET wl == IF op = "pass" THEN PassWinner(data, a, b)
                          ELSE <<a, b>>
                IN  /\ threads' =
                          [threads EXCEPT ![t] =
                              [th EXCEPT
                                 !.pc = "save_wishlist",
                                 !.data = ApplyMatch(data, wl[1], wl[2], k),
                                 !.entry = MatchEntry(data, wl[1], wl[2], k,
                                                      op = "pass", th.req)]]
                    /\ UNCHANGED completed
    /\ UNCHANGED <<wishlist, history, stats, genres, last, present, tasks,
                   backup>>

\* save_wishlist(data)
SaveWishlist(t) ==
    /\ threads[t].pc = "save_wishlist"
    /\ wishlist' = threads[t].data
    /\ threads' = [threads EXCEPT ![t].pc = "read_history"]
    /\ present' = present \cup {"wishlist"}
    /\ UNCHANGED <<history, stats, genres, last, started, completed, tasks,
                   backup>>

\* append_history: hist = json.loads(HISTORY_FILE.read_text())
ReadHistory(t) ==
    /\ threads[t].pc = "read_history"
    /\ threads' = [threads EXCEPT ![t].pc = "write_history",
                                  ![t].hist = history]
    /\ UNCHANGED <<wishlist, history, stats, genres, last, started, completed,
                   present, tasks, backup>>

\* append_history: hist.append(entry); HISTORY_FILE.write_text(...)
WriteHistory(t) ==
    /\ threads[t].pc = "write_history"
    /\ history' = Append(threads[t].hist, threads[t].entry)
    /\ threads' = [threads EXCEPT ![t].pc = "load_stats"]
    /\ present' = present \cup {"history"}
    /\ UNCHANGED <<wishlist, stats, genres, last, started, completed, tasks,
                   backup>>

\* stats = load_stats()
LoadStats(t) ==
    /\ threads[t].pc = "load_stats"
    /\ threads' = [threads EXCEPT ![t].pc = "save_stats", ![t].st = stats]
    /\ UNCHANGED <<wishlist, history, stats, genres, last, started, completed,
                   present, tasks, backup>>

\* stats["total_played"] += 1; save_stats(stats); return: the request is
\* answered.
SaveStats(t) ==
    /\ threads[t].pc = "save_stats"
    /\ stats' = BumpStats(threads[t].st)
    /\ completed' = Append(completed, CallOf(threads[t], 200))
    /\ threads' = [threads EXCEPT ![t] = Idle]
    /\ present' = present \cup {"stats"}
    /\ UNCHANGED <<wishlist, history, genres, last, started, tasks, backup>>

\* ---------------------------------------------------------- specifications

\* A fresh data directory: no wishlist.json, history.json, stats.json or
\* genres.json (load_wishlist gives {}, load_stats gives total_played 0).
Init ==
    /\ wishlist = << >>
    /\ history = << >>
    /\ stats = [total_played |-> 0]
    /\ genres = [g \in GenreIds |-> [present |-> FALSE, games |-> {}]]
    /\ last = [op |-> "start", status |-> 200]
    /\ threads = [t \in Threads |-> Idle]
    /\ started = 0
    /\ completed = << >>
    /\ present = {}
    /\ tasks = << >>
    /\ version = 0
    /\ backups = << >>

\* The requests served one at a time.
Next ==
    \/ \E appid \in MatchIds : InOrder(AppIdList, appid) /\ ImportJson(appid)
    \/ /\ Len(history) < MaxMatches
       /\ \E w \in MatchIds, l \in MatchIds, k \in KFactors : Vote(w, l, k)
    \/ /\ Len(history) < MaxMatches
       /\ \E a \in MatchIds, b \in MatchIds, k \in KFactors : PassVote(a, b, k)

Spec == Init /\ [][Next]_vars

\* The pairing selector on the stores that imports, genre requests and a few
\* matches build.  /pair writes none of the four files, so the requests
\* after it find what the requests before it found: a behaviour ends at the
\* response of /pair.
NextPair ==
    \/ /\ last.op # "pair"
       /\ \E appid \in AppIds : InOrder(AppIdList, appid) /\ ImportJson(appid)
    \/ last.op # "pair" /\ \E name \in GenreNames : CreateGenre(name)
    \/ /\ last.op # "pair"
       /\ \E genre_id \in GenreIds, appid \in MatchIds :
             AddGameToGenre(genre_id, appid)
    \/ /\ last.op # "pair"
       /\ Len(history) < MaxPairMatches
       /\ \E w \in AppIds : \E l \in AppIds \ {w} :
             BothKnown(wishlist, w, l) /\ Vote(w, l, DefaultVoteK)
    \/ last.op # "pair" /\ \E q \in Queries : Pair(q)

SpecPair == Init /\ [][NextPair]_vars

\* The queries of SpecSlice: every preference, no challenger and no genre.
SliceQueries ==
    {Query(close, far, lower, new, DefaultHistoryLength, None, None) :
        close \in BOOLEAN, far \in BOOLEAN, lower \in BOOLEAN,
        new \in BOOLEAN}

\* The pairing selector on long wishlists: pick_from_top's slice is longer
\* than 2 from 30 games on.
NextSlice ==
    \/ /\ last.op # "pair"
       /\ \E appid \in SliceIds :
             /\ ~InStore(wishlist, appid)
             /\ InOrder(SliceIdList, appid)
             /\ ImportJson(appid)
    \/ /\ last.op # "pair"
       /\ Len(history) < MaxPairMatches
       /\ \E w \in SliceMatchIds : \E l \in SliceMatchIds \ {w} :
             BothKnown(wishlist, w, l) /\ Vote(w, l, DefaultVoteK)
    \/ last.op # "pair" /\ \E q \in SliceQueries : Pair(q)

SpecSlice == Init /\ [][NextSlice]_vars

\* The wishlist SpecConc starts from: the games of ConcIdList, as imported.
ConcStart == [i \in 1..Len(ConcIdList) |-> NewGame(ConcIdList[i])]

InitConc ==
    /\ wishlist = ConcStart
    /\ history = << >>
    /\ stats = [total_played |-> 0]
    /\ genres = [g \in GenreIds |-> [present |-> FALSE, games |-> {}]]
    /\ last = [op |-> "start", status |-> 200]
    /\ threads = [t \in Threads |-> Idle]
    /\ started = 0
    /\ completed = << >>
    /\ present = {"wishlist"}
    /\ tasks = << >>
    /\ version = 0
    /\ backups = << >>

\* /vote and /pass requests on the worker threads, their steps interleaved.
\* Every request names two different games; the winner of a /vote may be a
\* game the wishlist lacks.
NextConc ==
    \/ \E t \in Threads, a \in ConcIds \cup {"c"} :
          \E b \in ConcIds \ {a} : Begin(t, "vote", a, b, DefaultVoteK)
    \/ \E t \in Threads, a \in ConcIds :
          \E b \in ConcIds \ {a} : Begin(t, "pass", a, b, DefaultPassK)
    \/ \E t \in Threads : SaveWishlist(t)
    \/ \E t \in Threads : ReadHistory(t)
    \/ \E t \in Threads : WriteHistory(t)
    \/ \E t \in Threads : LoadStats(t)
    \/ \E t \in Threads : SaveStats(t)

SpecConc == InitConc /\ [][NextConc]_vars

-----------------------------------------------------------------------------
(* Properties of /vote and /pass, checked under Spec.                      *)

\* The appids in the wishlist.
Known == AppIdsOf(wishlist)

\* The last request was a /vote or /pass, answered with the given status.
LastMatch(op, status) == last.op = op /\ last.status = status

\* C1: after any sequence of /vote and /pass requests, successful or
\* failing, with any appids, every game of the wishlist has
\* played = wins + losses.
C1_PlayedIsWinsPlusLosses ==
    \A i \in 1..Len(wishlist) :
        wishlist[i].played = wishlist[i].wins + wishlist[i].losses

\* C1's case: a request has just failed, and some game has both won and lost.
C1_Witness ==
    /\ last.op \in {"vote", "pass"}
    /\ last.status = 400
    /\ \E i \in 1..Len(wishlist) :
          /\ wishlist[i].wins >= 1
          /\ wishlist[i].losses >= 1
          /\ wishlist[i].played >= 2

\* The step is a successful /vote.
VoteStep == last'.op = "vote" /\ last'.status = 200

\* What every successful /vote does beside the two games' counters: the
\* other games keep their records, history gains one entry at its end, not
\* marked as a pass, naming the winner and the loser, and total_played grows
\* by one.
VoteRest ==
    LET w == last'.a
        l == last'.b
        e == history'[Len(history')]
    IN  /\ Len(wishlist') = Len(wishlist)
        /\ \A i \in 1..Len(wishlist) :
              wishlist[i].appid \notin {w, l} => wishlist'[i] = wishlist[i]
        /\ Len(history') = Len(history) + 1
        /\ SubSeq(history', 1, Len(history)) = history
        /\ e.winner = w /\ e.loser = l /\ e.pass = FALSE
        /\ stats'.total_played = stats.total_played + 1

\* The counters of two different games after a /vote: the winner's wins and
\* played and the loser's losses and played are one more, the winner's
\* rating is higher and the loser's is lower.
VoteTwoGames ==
    LET iw == IndexOf(wishlist, last'.a)
        il == IndexOf(wishlist, last'.b)
    IN  /\ wishlist'[iw].wins = wishlist[iw].wins + 1
        /\ wishlist'[iw].played = wishlist[iw].played + 1
        /\ wishlist'[iw].losses = wishlist[iw].losses
        /\ wishlist'[il].losses = wishlist[il].losses + 1
        /\ wishlist'[il].played = wishlist[il].played + 1
        /\ wishlist'[il].wins = wishlist[il].wins
        /\ wishlist'[iw].rating > wishlist[iw].rating
        /\ wishlist'[il].rating < wishlist[il].rating

\* The counters of a game voted against itself: wins and losses are one
\* more, played is two more.
VoteOneGame ==
    LET i == IndexOf(wishlist, last'.a)
    IN  /\ wishlist'[i].wins = wishlist[i].wins + 1
        /\ wishlist'[i].losses = wishlist[i].losses + 1
        /\ wishlist'[i].played = wishlist[i].played + 2

\* C6: for any winner and loser of the wishlist, a successful /vote adds
\* exactly one to the winner's wins and played and exactly one to the
\* loser's losses and played, leaves every other game alone, appends one
\* non-pass entry naming them and adds one to total_played.  vote accepts
\* winner = loser, and then it does not hold.
C6_VoteEffect == [][VoteStep => VoteRest /\ VoteTwoGames]_vars

\* What vote does, the vote of a game against itself included.
VoteAsCoded ==
    [][VoteStep =>
          /\ VoteRest
          /\ IF last'.a # last'.b THEN VoteTwoGames ELSE VoteOneGame]_vars

\* The same vote between two different games, made twice: two entries and
\* two rating changes.
VotedTwice ==
    /\ LastMatch("vote", 200)
    /\ last.a # last.b
    /\ Len(history) = 2
    /\ \A i \in 1..2 :
          /\ history[i].winner = last.a
          /\ history[i].loser = last.b
          /\ ~history[i].pass
          /\ history[i].r_w_after > history[i].r_w_before
    /\ history[2].r_w_before = history[1].r_w_after
    /\ stats.total_played = 2

\* The step is a successful /pass.
PassStep == last'.op = "pass" /\ last'.status = 200

\* C7: /pass with games a and b of the wishlist resolves the match for the
\* game whose rating, before the call, is no higher than the other's, for a
\* when the two ratings are equal, and the entry it appends is marked as a
\* pass and names that game as the winner.
C7_PassWinner ==
    [][PassStep =>
          LET a  == last'.a
              b  == last'.b
              w  == last'.winner
              o  == IF w = a THEN b ELSE a
              ra == wishlist[IndexOf(wishlist, a)].rating
              rb == wishlist[IndexOf(wishlist, b)].rating
              e  == history'[Len(history')]
          IN  /\ w \in {a, b}
              /\ wishlist[IndexOf(wishlist, w)].rating
                     <= wishlist[IndexOf(wishlist, o)].rating
              /\ ra = rb => w = a
              /\ Len(history') = Len(history) + 1
              /\ e.pass = TRUE /\ e.winner = w /\ e.loser = o
              /\ wishlist'[IndexOf(wishlist, w)].wins
                     = wishlist[IndexOf(wishlist, w)].wins + 1]_vars

\* C7's cases: a pass between two different games that the second one won,
\* after a pass at equal ratings that the first one won.
C7_Witness ==
    /\ LastMatch("pass", 200)
    /\ last.a # last.b
    /\ last.winner = last.b
    /\ Len(history) = 2
    /\ history[2].pass /\ history[2].winner = last.b
    /\ history[2].r_w_before < history[2].r_l_before
    /\ history[1].pass
    /\ history[1].r_w_before = history[1].r_l_before

\* The step is a /vote or /pass that names an appid the wishlist lacks.
UnknownStep ==
    /\ last'.op \in {"vote", "pass"}
    /\ (last'.a \notin Known \/ last'.b \notin Known)

\* C8: a /vote or /pass that names an appid the wishlist lacks fails with
\* UnknownGame and leaves the wishlist, the history and total_played as they
\* were.
C8_UnknownGame ==
    [][UnknownStep =>
          /\ last'.status = 400
          /\ last'.error = "UnknownGame"
          /\ wishlist' = wishlist
          /\ history' = history
          /\ stats' = stats]_vars

\* C8's case: a vote for a known winner against an unknown loser has failed,
\* with matches already recorded.
C8_Witness ==
    /\ LastMatch("vote", 400)
    /\ last.error = "UnknownGame"
    /\ last.a \in Known
    /\ last.b \notin Known
    /\ Len(history) >= 1
    /\ stats.total_played = Len(history)

-----------------------------------------------------------------------------
(* Properties of /pair, checked under SpecPair and SpecSlice.  In a state  *)
(* whose last request is a /pair, the files are the ones the request read. *)

\* The last request was a /pair that returned a pair.
Paired == last.op = "pair" /\ last.status = 200

\* The last /pair failed with this error.
PairFailed(status, error) ==
    last.op = "pair" /\ last.status = status /\ last.error = error

\* The candidates of the last /pair: the games of the wishlist, those of the
\* query's genre only when the query names a genre by a non-empty id.
CandidateIds ==
    IF last.q.genre \in {None, ""}
    THEN Known
    ELSE Known \cap genres[last.q.genre].games

\* C2: /pair never returns the same appid twice, whatever the candidates,
\* the preferences and the challenger, and it fails with
\* InsufficientCandidates when the candidate set, filtered by an existing
\* genre or not filtered, has 0 or 1 games.
C2_DistinctPair ==
    last.op = "pair" =>
        /\ last.status = 200 => last.a # last.b
        /\ last.status = 200 => {last.a, last.b} \subseteq Known
        /\ (/\ last.q.genre \in {None, ""} \/ GenreIn(genres, last.q.genre)
            /\ Cardinality(CandidateIds) < 2)
               => PairFailed(400, "InsufficientCandidates")

\* C2's cases: a pair out of exactly two candidates of a genre, in a larger
\* wishlist; a failure on a single candidate.
C2_Witness ==
    /\ Paired
    /\ last.q.genre = "rpg"
    /\ Cardinality(CandidateIds) = 2
    /\ Len(wishlist) > 2
    /\ last.a # last.b

C2_WitnessOne ==
    /\ PairFailed(400, "InsufficientCandidates")
    /\ Cardinality(CandidateIds) = 1
    /\ Len(wishlist) >= 1

\* C3 (as amended): whenever /pair is called with a challenger appid that is
\* in the wishlist and returns a pair, the challenger is one member of the
\* pair (the first), and the other member is another game.
C3_ChallengerInPair ==
    (Paired /\ last.q.challenger \in Known) =>
        /\ last.a = last.q.challenger
        /\ last.b # last.q.challenger

\* C3 (as claimed): whenever /pair is called with a challenger appid and
\* returns a pair, the challenger is one member of the pair.
C3_AsClaimed ==
    (Paired /\ last.q.challenger # None) =>
        last.q.challenger \in {last.a, last.b}

\* C3's case: a pair for a challenger of the wishlist that the preferences
\* alone would not have picked: it has played, the query prefers the games
\* that played less, and two games or more have not played.
C3_Witness ==
    /\ Paired
    /\ last.q.challenger \in Known
    /\ last.q.prefer_lower_played
    /\ last.a = last.q.challenger
    /\ GameOf(wishlist, last.a).played >= 1
    /\ Cardinality({i \in 1..Len(wishlist) : wishlist[i].played = 0}) >= 2

\* C10: whenever a genre id is supplied, /pair does not draw the pair from
\* the unfiltered wishlist: a genre that does not exist gives GenreNotFound,
\* and a genre with fewer than two member games gives
\* InsufficientCandidates.  An empty genre id is taken as no genre at all,
\* and then it does not hold.
C10_GenreNeverIgnored ==
    (last.op = "pair" /\ last.q.genre # None) =>
        /\ ~GenreIn(genres, last.q.genre) => PairFailed(404, "GenreNotFound")
        /\ (/\ GenreIn(genres, last.q.genre)
            /\ Cardinality(genres[last.q.genre].games) < 2)
               => PairFailed(400, "InsufficientCandidates")
        /\ Paired => {last.a, last.b} \subseteq genres[last.q.genre].games

\* max(2, floor(0.1 * n))
SliceSize(n) == IF n \div 10 > 2 THEN n \div 10 ELSE 2

\* The number of games of the list that a sort by the composite key, with
\* ref as the rating-distance reference, puts before the game at index at:
\* the games of a smaller key, and the games of the same key that stand
\* earlier in the list.
Before(list, at, ref) ==
    LET recent == RecentAppIds(history, last.q)
        key(i) == SortKey(list[i], ref, last.q, recent)
    IN  Cardinality({i \in 1..Len(list) :
                        \/ TupleLess(key(i), key(at))
                        \/ key(i) = key(at) /\ i < at})

\* The candidates of the last /pair in the order of the wishlist, and the
\* candidates left when its first game is taken out.
PairCandidates == Candidates(wishlist, genres, last.q)
PairRemainder == SelectSeq(PairCandidates, LAMBDA g : g.appid # last.a)

\* The places, counted from 0, of the two games of the last pair: of the
\* first among the candidates sorted with no reference, of the second among
\* the remainder sorted with the first as reference.
PlaceOfFirst ==
    Before(PairCandidates, IndexOf(PairCandidates, last.a), NoGame)
PlaceOfSecond ==
    Before(PairRemainder, IndexOf(PairRemainder, last.b),
           GameOf(wishlist, last.a))

\* C9: in free mode the first game of the pair is one of the first
\* max(2, floor(0.1 n)) of the n candidates sorted by the composite key
\* (recent flag, played), and the second is one of the first
\* max(2, floor(0.1 m)) of the m remaining candidates sorted again with the
\* first game as the rating-distance reference.
C9_TopSlice ==
    (Paired /\ ~ChallengerMode(wishlist, last.q)) =>
        /\ PlaceOfFirst < SliceSize(Len(PairCandidates))
        /\ Len(PairRemainder) = Len(PairCandidates) - 1
        /\ PlaceOfSecond < SliceSize(Len(PairRemainder))

\* C9's case: 31 candidates or more, so that both slices hold three games,
\* some of them played, a query that prefers the games that played less and
\* the close ratings, and a pair made of the third game of each slice.
C9_Witness ==
    /\ Paired
    /\ ~ChallengerMode(wishlist, last.q)
    /\ Len(PairCandidates) >= 31
    /\ last.q.prefer_lower_played /\ last.q.prefer_close_rating
    /\ \E i \in 1..Len(wishlist) : wishlist[i].played > 0
    /\ PlaceOfFirst = 2
    /\ PlaceOfSecond = 2

\* C9's example: 20 candidates, prefer_lower_played alone: the first game is
\* one of the two that played least.
C9_WitnessTwenty ==
    /\ Paired
    /\ Len(PairCandidates) = 20
    /\ last.q.prefer_lower_played
    /\ ~last.q.prefer_new_choices
    /\ \E i \in 1..Len(wishlist) : wishlist[i].played > 0
    /\ PlaceOfFirst = 1

-----------------------------------------------------------------------------
(* Properties of concurrent /vote and /pass requests, checked under        *)
(* SpecConc.                                                               *)

\* The answered requests that succeeded, in the order of their answers.
Succeeded == SelectSeq(completed, LAMBDA c : c.status = 200)

\* The entries of history.json written by the answered requests.
LoggedOfAnswered ==
    LET reqs == {Succeeded[i].req : i \in 1..Len(Succeeded)}
    IN  SelectSeq(history, LAMBDA e : e.req \in reqs)

\* C4: under concurrent /vote and /pass requests, every request that
\* completed has exactly one entry in history.json, and the entries stand in
\* the order in which the requests completed.  append_history reads and
\* rewrites the file with no lock, and then it does not hold.
C4_HistoryInCompletionOrder ==
    /\ Len(LoggedOfAnswered) = Len(Succeeded)
    /\ \A i \in 1..Len(Succeeded) : LoggedOfAnswered[i].req = Succeeded[i].req

\* No request is being served.
AllIdle == \A t \in Threads : threads[t].pc = "idle"

\* The files after the calls of the sequence are served one after the other,
\* each one whole, starting from the files of f.
RECURSIVE SerialRun(_, _)
SerialRun(f, calls) ==
    IF calls = << >> THEN f
    ELSE LET c == Head(calls)
             r == IF c.op = "pass"
                  THEN PassResult(f.wishlist, f.history, f.stats,
                                  c.a, c.b, c.k)
                  ELSE VoteResult(f.wishlist, f.history, f.stats,
                                  c.a, c.b, c.k)
         IN  SerialRun([wishlist |-> r.wishlist, history |-> r.history,
                        stats |-> r.stats], Tail(calls))

\* The orders in which n calls can be served.
Orders(n) ==
    {p \in [1..n -> 1..n] : \A i \in 1..n : \A j \in 1..n :
                                p[i] = p[j] => i = j}

\* The counters of a wishlist: wins, losses and played of every game.
Counters(data) ==
    [i \in 1..Len(data) |->
        <<data[i].appid, data[i].wins, data[i].losses, data[i].played>>]

\* C5: no update is lost under concurrent /vote and /pass requests: once
\* they are all answered, wins, losses and played of every game and
\* total_played are the values that serving the same requests one after the
\* other, in some order, gives.  The handlers load, change and save the
\* whole files with no lock, and then it does not hold.
C5_NoLostUpdate ==
    AllIdle =>
        \E p \in Orders(Len(completed)) :
            LET calls == [i \in 1..Len(completed) |-> completed[p[i]]]
                f == SerialRun([wishlist |-> ConcStart, history |-> << >>,
                                stats |-> [total_played |-> 0]], calls)
            IN  /\ Counters(wishlist) = Counters(f.wishlist)
                /\ stats.total_played = f.stats.total_played

-----------------------------------------------------------------------------
(* The genre of the pair, under SpecPair.                                  *)

\* C11: when /pair is called with a genre and returns a pair, both games of
\* the pair are members of that genre, in free mode and in challenger mode
\* alike.  Stated here for the genre ids that are not empty (the empty id is
\* the subject of C10).  The challenger is taken from the whole wishlist,
\* and then it does not hold.
C11_PairInGenre ==
    (Paired /\ last.q.genre \notin {None, ""}) =>
        {last.a, last.b} \subseteq genres[last.q.genre].games

\* What pair does with a genre of a non-empty id: the second game is always
\* a member, and so is the first unless it is a challenger from outside the
\* genre.
PairInGenreAsCoded ==
    (Paired /\ last.q.genre \notin {None, ""}) =>
        /\ last.b \in genres[last.q.genre].games
        /\ \/ last.a \in genres[last.q.genre].games
           \/ ChallengerMode(wishlist, last.q) /\ last.a = last.q.challenger

\* A pair in free mode for a genre that holds some games of the wishlist
\* and not all.
PairedInGenre ==
    /\ Paired
    /\ last.q.genre = "rpg"
    /\ ~ChallengerMode(wishlist, last.q)
    /\ Len(wishlist) > Cardinality(genres["rpg"].games)
    /\ {last.a, last.b} \subseteq genres["rpg"].games

-----------------------------------------------------------------------------
(* /pair and its image caching tasks beside /vote and /pass.               *)

\* The /pair requests and the /vote and /pass requests of SpecCache.
MaxPairCalls == 1
MaxCacheCalls == 2

\* The query of /pair with every parameter at its default.
DefaultQuery ==
    Query(FALSE, FALSE, FALSE, FALSE, DefaultHistoryLength, None, None)

\* /pair is served on the event loop, and so are the tasks it creates; /vote
\* and /pass are served on the worker threads.  The steps of a task and the
\* steps of the threads interleave.
NextCache ==
    \/ /\ Len(tasks) < 2 * MaxPairCalls
       /\ Pair(DefaultQuery)
    \/ \E i \in 1..Len(tasks) : CacheSkip(i)
    \/ \E i \in 1..Len(tasks) : CacheLoad(i)
    \/ \E i \in 1..Len(tasks) : CacheSave(i)
    \/ /\ started < MaxCacheCalls
       /\ \E t \in Threads, a \in ConcIds :
             \E b \in ConcIds \ {a} : Begin(t, "vote", a, b, DefaultVoteK)
    \/ /\ started < MaxCacheCalls
       /\ \E t \in Threads, a \in ConcIds :
             \E b \in ConcIds \ {a} : Begin(t, "pass", a, b, DefaultPassK)
    \/ \E t \in Threads : SaveWishlist(t)
    \/ \E t \in Threads : ReadHistory(t)
    \/ \E t \in Threads : WriteHistory(t)
    \/ \E t \in Threads : LoadStats(t)
    \/ \E t \in Threads : SaveStats(t)

SpecCache == InitConc /\ [][NextCache]_vars

\* C12: /pair is read-only on the match state: no step of a /pair request
\* or of the image caching tasks it creates changes the rating, wins, losses
\* or played of a game in wishlist.json, history.json or total_played, also
\* when the steps interleave with /vote and /pass requests.  A task writes
\* back the wishlist it loaded before a vote saved its own, and then it does
\* not hold.
C12_PairReadOnly ==
    [][tasks' # tasks => UNCHANGED <<wishlist, history, stats>>]_vars

\* What the code does keep: the /pair request itself writes nothing, and no
\* task touches history.json or stats.json.
PairAsCoded ==
    [][tasks' # tasks =>
          /\ UNCHANGED <<history, stats>>
          /\ Len(tasks') # Len(tasks) => UNCHANGED wishlist]_vars

\* A vote was answered, its games were saved, and a task has put back the
\* wishlist of before the vote.
VoteUndoneByTask ==
    /\ AllIdle
    /\ Len(Succeeded) = 1
    /\ \A i \in 1..Len(tasks) : tasks[i].pc = "done"
    /\ Len(tasks) > 0
    /\ stats.total_played = 1
    /\ wishlist = ConcStart

-----------------------------------------------------------------------------
(* Backups: /save_snapshot, /reset_ratings and /restore_version.           *)

\* The backups made in a run.
MaxVersions == 2

\* A backup folder: the files that existed when it was made, copied with
\* their contents, and the request that made it.  The field of a file that
\* did not exist holds what its loader returns for a missing file; no
\* request reads it from the folder.
BackupOf(by, files, data, hist, st) ==
    [by |-> by, files |-> files, wishlist |-> data, history |-> hist,
     stats |-> st]

\* ResetGames that leaves wins where it was.
ResetGamesKeepsWins(data) ==
    [i \in 1..Len(data) |->
        [data[i] EXCEPT !.rating = DefaultRating, !.losses = 0, !.played = 0]]

\* reset_ratings' loop over the games of the wishlist.
ResetGames(data) ==
    [i \in 1..Len(data) |->
        [data[i] EXCEPT !.rating = DefaultRating, !.wins = 0, !.losses = 0,
                        !.played = 0]]

\* POST /save_snapshot
SaveSnapshot ==
    /\ version' = version + 1
    /\ backups' = Append(backups, BackupOf("save_snapshot", present,
                                           wishlist, history, stats))
    /\ last' = [op |-> "save_snapshot", status |-> 200,
                version |-> version + 1]
    /\ UNCHANGED <<wishlist, history, stats, genres, conc, present, tasks>>

\* POST /reset_ratings
ResetRatings ==
    /\ version' = version + 1
    /\ backups' = Append(backups, BackupOf("reset_ratings", present,
                                           wishlist, history, stats))
    /\ wishlist' = ResetGames(wishlist)
    /\ history' = << >>
    /\ stats' = [total_played |-> 0]
    /\ present' = AllFiles
    /\ last' = [op |-> "reset_ratings", status |-> 200,
                version |-> version + 1]
    /\ UNCHANGED <<genres, conc, tasks>>

\* POST /restore_version: a folder exists for the versions made so far, and
\* the files found in it are copied back.
RestoreVersion(v) ==
    /\ IF v \notin 1..version
       THEN /\ last' = [op |-> "restore_version", status |-> 404,
                        version |-> v]
            /\ UNCHANGED <<wishlist, history, stats, present>>
       ELSE LET b == backups[v]
            IN  /\ wishlist' = IF "wishlist" \in b.files
                               THEN b.wishlist ELSE wishlist
                /\ history' = IF "history" \in b.files
                              THEN b.history ELSE history
                /\ stats' = IF "stats" \in b.files THEN b.stats ELSE stats
                /\ present' = present \cup b.files
                /\ last' = [op |-> "restore_version", status |-> 200,
                            version |-> v]
    /\ UNCHANGED <<genres, conc, tasks, backup>>

\* The requests of SpecReset and SpecBackup name the games of ConcIdList and
\* a game that is never imported.
BackupMatchIds == ConcIds \cup {"c"}

\* The matches recorded in a run: those of history.json and those of the
\* histories that /reset_ratings cleared.
RECURSIVE MatchesCleared(_)
MatchesCleared(bs) ==
    IF bs = << >> THEN 0
    ELSE (IF Head(bs).by = "reset_ratings" THEN Len(Head(bs).history) ELSE 0)
         + MatchesCleared(Tail(bs))

MatchesInRun == Len(history) + MatchesCleared(backups)

\* /import/json, /vote, /pass and /reset_ratings, served one at a time.
NextReset ==
    \/ \E appid \in ConcIds : InOrder(ConcIdList, appid) /\ ImportJson(appid)
    \/ /\ MatchesInRun < MaxMatches
       /\ \E w \in BackupMatchIds, l \in BackupMatchIds :
             Vote(w, l, DefaultVoteK)
    \/ /\ MatchesInRun < MaxMatches
       /\ \E a \in BackupMatchIds, b \in BackupMatchIds :
             PassVote(a, b, DefaultPassK)
    \/ /\ version < MaxVersions
       /\ ResetRatings

SpecReset == Init /\ [][NextReset]_vars

\* The entries of history.json that name the game in the given role.
Naming(role, appid) ==
    Cardinality({j \in 1..Len(history) : history[j][role] = appid})

\* C14: after any sequence of /vote, /pass and /reset_ratings requests served
\* one at a time, starting with no history and every counter at zero, the
\* wins of every game is the number of history entries that name it as the
\* winner, its losses is the number that name it as the loser, and
\* total_played is the number of history entries.
C14_CountersAgreeWithHistory ==
    /\ \A i \in 1..Len(wishlist) :
          /\ wishlist[i].wins = Naming("winner", wishlist[i].appid)
          /\ wishlist[i].losses = Naming("loser", wishlist[i].appid)
    /\ stats.total_played = Len(history)

\* C14's case: a match was recorded, /reset_ratings cleared it, and a vote
\* between two games recorded another.
C14_Witness ==
    /\ LastMatch("vote", 200)
    /\ last.a # last.b
    /\ version >= 1
    /\ backups[version].by = "reset_ratings"
    /\ Len(backups[version].history) >= 1
    /\ Len(history) = 1
    /\ GameOf(wishlist, last.a).wins = 1
    /\ GameOf(wishlist, last.b).losses = 1

\* The requests of SpecBackup, served one at a time: the games are imported
\* before the first backup is made, and a run ends with a /restore_version,
\* so that only matches, resets and snapshots stand between a backup and its
\* restore.  Every match is between two different games.
NextBackup ==
    \/ /\ version = 0
       /\ \E appid \in ConcIds :
             InOrder(ConcIdList, appid) /\ ImportJson(appid)
    \/ /\ last.op # "restore_version"
       /\ MatchesInRun < MaxMatches
       /\ \E w \in BackupMatchIds :
             \E l \in BackupMatchIds \ {w} : Vote(w, l, DefaultVoteK)
    \/ /\ last.op # "restore_version"
       /\ MatchesInRun < MaxMatches
       /\ \E a \in BackupMatchIds :
             \E b \in BackupMatchIds \ {a} : PassVote(a, b, DefaultPassK)
    \/ /\ last.op # "restore_version"
       /\ version < MaxVersions
       /\ ResetRatings
    \/ /\ last.op # "restore_version"
       /\ version < MaxVersions
       /\ SaveSnapshot
    \/ /\ last.op # "restore_version"
       /\ \E v \in 1..MaxVersions : RestoreVersion(v)

SpecBackup == Init /\ [][NextBackup]_vars

\* The last request restored a backup, and since that backup was made the
\* only backups made are those of /reset_ratings.
Restored ==
    /\ last.op = "restore_version"
    /\ last.status = 200
    /\ \A u \in (last.version + 1)..version : backups[u].by = "reset_ratings"

\* C13: whatever the state in which /save_snapshot or /reset_ratings made
\* backup v, and whatever /vote, /pass and /reset_ratings requests followed,
\* /restore_version of v gives the wishlist, the history and the stats the
\* contents they had when v was made.  A file that did not exist when v was
\* made is not in the backup, /restore_version leaves it as it is, and then
\* it does not hold.
C13_RestoreRoundTrip ==
    Restored =>
        /\ wishlist = backups[last.version].wishlist
        /\ history = backups[last.version].history
        /\ stats = backups[last.version].stats

\* What restore_version does give back: the files that existed when the
\* backup was made.
RestoreAsCoded ==
    Restored =>
        LET b == backups[last.version]
        IN  /\ "wishlist" \in b.files => wishlist = b.wishlist
            /\ "history" \in b.files => history = b.history
            /\ "stats" \in b.files => stats = b.stats

\* A backup of the three files, made by /save_snapshot after a match, was
\* restored after another match and a /reset_ratings, and the three files
\* are as they were.
RestoredWhole ==
    /\ Restored
    /\ backups[last.version].by = "save_snapshot"
    /\ backups[last.version].files = AllFiles
    /\ Len(backups[last.version].history) = 1
    /\ version > last.version
    /\ Len(backups[version].history) = 2
    /\ history = backups[last.version].history
    /\ wishlist = backups[last.version].wishlist
    /\ stats = backups[last.version].stats

=============================================================================
